---- MODULE Spec2Model ----
(***************************************************************************)
(* Robot Hold 'Em: the poker core (cards, deck, hand evaluator and         *)
(* comparator, game state) and the hand/betting-round controller of        *)
(* PokerGame, as a state machine.                                          *)
(***************************************************************************)
EXTENDS Integers, Sequences, FiniteSets, TLC

(***************************************************************************)
(* Bounds of the model.                                                    *)
(***************************************************************************)
\* number of seats at the table (players added with add_player)
NumSeats == 3
\* chips every seat starts the game with (PokerGame.starting_stack)
StartingStack == 6
\* blinds (PokerGame.small_blind / big_blind)
SmallBlind == 1
BigBlind == 2
\* hands played in one game (NUM_HANDS)
MaxHands == 2
\* number of distinct outcomes of Deck.shuffle that are explored
NumShuffles == 2
\* the decision source may return amounts from -MaxNegative to MaxAmount, and
\* every amount of the legal action set
MaxNegative == 1
MaxAmount == 7
\* decisions outside the legal action set that the decision sources return in one game
MaxIllegal == 1

(***************************************************************************)
(* Cards.  A card is a number 0..51 in the order Deck.reset builds the     *)
(* deck: suits in the outer loop, ranks in the inner loop.                 *)
(***************************************************************************)
Cards == 0 .. 51
\* Rank.value: TWO = 2 .. ACE = 14
RankOf(c) == (c % 13) + 2
\* Suit: 0 Clubs, 1 Diamonds, 2 Hearts, 3 Spades
SuitOf(c) == c \div 13
ACE == 14
FIVE == 5
FOUR == 4
THREE == 3
TWO == 2

\* HandRank values
HIGH_CARD == 1
ONE_PAIR == 2
TWO_PAIR == 3
THREE_OF_A_KIND == 4
STRAIGHT == 5
FLUSH == 6
FULL_HOUSE == 7
FOUR_OF_A_KIND == 8
STRAIGHT_FLUSH == 9
ROYAL_FLUSH == 10

Range(s) == {s[i] : i \in 1 .. Len(s)}
Max(S) == CHOOSE x \in S : \A y \in S : y <= x
Min(S) == CHOOSE x \in S : \A y \in S : x <= y
Take(s, n) == SubSeq(s, 1, IF n < Len(s) THEN n ELSE Len(s))

RECURSIVE SumOver(_, _)
SumOver(f, S) ==
    IF S = {} THEN 0
    ELSE LET x == CHOOSE y \in S : TRUE IN f[x] + SumOver(f, S \ {x})

\* insert card c behind every card of rank >= its own: sorted(., reverse=True)
\* is stable, cards of equal rank keep their input order
RECURSIVE InsertDesc(_, _)
InsertDesc(s, c) ==
    IF s = <<>> THEN <<c>>
    ELSE IF RankOf(Head(s)) >= RankOf(c) THEN <<Head(s)>> \o InsertDesc(Tail(s), c)
    ELSE <<c>> \o s

\* Hand.__init__: cards sorted by rank, highest first
RECURSIVE Hand(_)
Hand(cards) ==
    IF cards = <<>> THEN <<>>
    ELSE InsertDesc(Hand(SubSeq(cards, 1, Len(cards) - 1)), cards[Len(cards)])

\* Hand.rank_counts()[r]
RankCount(h, r) == Cardinality({i \in 1 .. Len(h) : RankOf(h[i]) = r})
\* Hand.suit_counts()[s]
SuitCount(h, s) == Cardinality({i \in 1 .. Len(h) : SuitOf(h[i]) = s})
\* [card for card in hand.cards if card.rank == r]
OfRank(h, r) == SelectSeq(h, LAMBDA c : RankOf(c) = r)
NotOfRank(h, r) == SelectSeq(h, LAMBDA c : RankOf(c) # r)
OfSuit(h, s) == SelectSeq(h, LAMBDA c : SuitOf(c) = s)

\* unique_ranks of _find_straight: the first card of every rank, in hand order
RECURSIVE UniqueRanks(_)
UniqueRanks(h) ==
    IF h = <<>> THEN <<>>
    ELSE LET rest == UniqueRanks(SubSeq(h, 1, Len(h) - 1))
             c == h[Len(h)]
         IN IF \E i \in 1 .. Len(rest) : RankOf(rest[i]) = RankOf(c)
            THEN rest ELSE Append(rest, c)

\* next(card for card in hand.cards if card.rank == r)
FirstOfRank(h, r) == h[Min({i \in 1 .. Len(h) : RankOf(h[i]) = r})]

\* HandEvaluator._find_straight; <<>> stands for None
FindStraight(h) ==
    LET u == UniqueRanks(h)
        seen == {RankOf(h[i]) : i \in 1 .. Len(h)}
        runs == {i \in 1 .. (Len(u) - 4) :
                    \A k \in 0 .. 3 : RankOf(u[i + k]) = RankOf(u[i + k + 1]) + 1}
    IN IF {ACE, FIVE, FOUR, THREE, TWO} \subseteq seen
       THEN <<FirstOfRank(h, FIVE), FirstOfRank(h, FOUR), FirstOfRank(h, THREE),
              FirstOfRank(h, TWO), FirstOfRank(h, ACE)>>
       ELSE IF runs # {} THEN SubSeq(u, Min(runs), Min(runs) + 4)
       ELSE <<>>

\* the suits of the hand in the order suit_groups meets them
RECURSIVE SuitOrder(_)
SuitOrder(h) ==
    IF h = <<>> THEN <<>>
    ELSE LET rest == SuitOrder(SubSeq(h, 1, Len(h) - 1))
             s == SuitOf(h[Len(h)])
         IN IF s \in Range(rest) THEN rest ELSE Append(rest, s)

\* the first member of ss that is not None
FirstFound(ss) ==
    IF \A i \in 1 .. Len(ss) : ss[i] = <<>> THEN <<>>
    ELSE ss[Min({i \in 1 .. Len(ss) : ss[i] # <<>>})]

\* suit_groups, in the order of so
SuitGroups(h, so) == [i \in 1 .. Len(so) |-> OfSuit(h, so[i])]

\* "if len(cards) >= 5": the straight of every suit group of 5 or more
GroupStraights(groups) ==
    [i \in 1 .. Len(groups) |->
        IF Len(groups[i]) >= 5 THEN FindStraight(Hand(groups[i])) ELSE <<>>]

\* HandEvaluator._find_straight_flush: the first suit group with a straight
FindStraightFlush(h) == FirstFound(GroupStraights(SuitGroups(h, SuitOrder(h))))

\* "if straight_flush and straight_flush[0].rank == Rank.ACE"
AceHigh(straight_flush) ==
    IF straight_flush # <<>> /\ RankOf(straight_flush[1]) = ACE
    THEN straight_flush ELSE <<>>

\* HandEvaluator._find_royal_flush
FindRoyalFlush(h) == AceHigh(FindStraightFlush(h))

\* rank_counts.items() lists the ranks in the order of the sorted hand, i.e.
\* descending, so "the first rank with ..." is the highest such rank
RanksWithExactly(h, n) == {r \in TWO .. ACE : RankCount(h, r) = n}
RanksWithAtLeast(h, n) == {r \in TWO .. ACE : RankCount(h, r) >= n}

\* a _find_four_of_a_kind that returns the four cards without a kicker
FindFourOfAKindNoKicker(h) ==
    LET rs == RanksWithExactly(h, 4)
    IN IF rs = {} THEN <<>> ELSE OfRank(h, Max(rs))

\* HandEvaluator._find_four_of_a_kind
FindFourOfAKind(h) ==
    LET rs == RanksWithExactly(h, 4)
    IN IF rs = {} THEN <<>>
       ELSE OfRank(h, Max(rs)) \o Take(NotOfRank(h, Max(rs)), 1)

\* HandEvaluator._find_full_house
FindFullHouse(h) ==
    LET ts == RanksWithAtLeast(h, 3)
    IN IF ts = {} THEN <<>>
       ELSE LET t == Max(ts)
                ps == RanksWithAtLeast(h, 2) \ {t}
            IN IF ps = {} THEN <<>>
               ELSE Take(OfRank(h, t), 3) \o Take(OfRank(h, Max(ps)), 2)

\* HandEvaluator._find_flush: the first suit, in suit_counts order, with >= 5
FindFlush(h) ==
    LET so == SuitOrder(h)
        hits == {i \in 1 .. Len(so) : SuitCount(h, so[i]) >= 5}
    IN IF hits = {} THEN <<>> ELSE Take(OfSuit(h, so[Min(hits)]), 5)

\* HandEvaluator._find_three_of_a_kind
FindThreeOfAKind(h) ==
    LET rs == RanksWithExactly(h, 3)
    IN IF rs = {} THEN <<>>
       ELSE OfRank(h, Max(rs)) \o Take(NotOfRank(h, Max(rs)), 2)

\* HandEvaluator._find_two_pair
FindTwoPair(h) ==
    LET pairs == RanksWithAtLeast(h, 2)
    IN IF Cardinality(pairs) < 2 THEN <<>>
       ELSE LET p1 == Max(pairs)
                p2 == Max(pairs \ {p1})
            IN Take(OfRank(h, p1), 2) \o Take(OfRank(h, p2), 2)
               \o Take(SelectSeq(h, LAMBDA c : RankOf(c) # p1 /\ RankOf(c) # p2), 1)

\* HandEvaluator._find_one_pair
FindOnePair(h) ==
    LET rs == RanksWithAtLeast(h, 2)
    IN IF rs = {} THEN <<>>
       ELSE Take(OfRank(h, Max(rs)), 2) \o Take(NotOfRank(h, Max(rs)), 3)

\* the first <<HandRank, cards>> of found whose cards are not None
FirstHandFound(found) == found[Min({i \in 1 .. Len(found) : found[i][2] # <<>>})]

\* evaluate, on the sorted hand: "Check for each hand rank in descending
\* order of value", the highest 5 cards if no pattern is found
EvaluateHand(h) ==
    FirstHandFound(<< <<ROYAL_FLUSH, FindRoyalFlush(h)>>,
                      <<STRAIGHT_FLUSH, FindStraightFlush(h)>>,
                      <<FOUR_OF_A_KIND, FindFourOfAKind(h)>>,
                      <<FULL_HOUSE, FindFullHouse(h)>>,
                      <<FLUSH, FindFlush(h)>>,
                      <<STRAIGHT, FindStraight(h)>>,
                      <<THREE_OF_A_KIND, FindThreeOfAKind(h)>>,
                      <<TWO_PAIR, FindTwoPair(h)>>,
                      <<ONE_PAIR, FindOnePair(h)>>,
                      <<HIGH_CARD, Take(h, 5)>> >>)

\* HandEvaluator.evaluate: <<HandRank, best cards>>
Evaluate(cards) == EvaluateHand(Hand(cards))

\* a comparison that looks at the first four cards of the best hands only
CompareEvaluatedFirstFour(e1, e2) ==
    LET diff == {i \in 1 .. 4 : RankOf(e1[2][i]) # RankOf(e2[2][i])}
    IN IF e1[1] > e2[1] THEN 1
       ELSE IF e1[1] < e2[1] THEN 0 - 1
       ELSE IF diff = {} THEN 0
       ELSE IF RankOf(e1[2][Min(diff)]) > RankOf(e2[2][Min(diff)]) THEN 1
       ELSE 0 - 1

\* a comparison in which a High Card hand beats a Straight Flush
CompareEvaluatedLowBeatsHigh(e1, e2) ==
    LET diff == {i \in 1 .. 5 : RankOf(e1[2][i]) # RankOf(e2[2][i])}
    IN IF e1[1] = HIGH_CARD /\ e2[1] = STRAIGHT_FLUSH THEN 1
       ELSE IF e1[1] = STRAIGHT_FLUSH /\ e2[1] = HIGH_CARD THEN 0 - 1
       ELSE IF e1[1] > e2[1] THEN 1
       ELSE IF e1[1] < e2[1] THEN 0 - 1
       ELSE IF diff = {} THEN 0
       ELSE IF RankOf(e1[2][Min(diff)]) > RankOf(e2[2][Min(diff)]) THEN 1
       ELSE 0 - 1

\* compare_hands on the two evaluations: the ranks first, then the cards of
\* zip(best_hand1, best_hand2) in order
CompareEvaluated(e1, e2) ==
    LET n == IF Len(e1[2]) < Len(e2[2]) THEN Len(e1[2]) ELSE Len(e2[2])
        diff == {i \in 1 .. n : RankOf(e1[2][i]) # RankOf(e2[2][i])}
    IN IF e1[1] > e2[1] THEN 1
       ELSE IF e1[1] < e2[1] THEN 0 - 1
       ELSE IF diff = {} THEN 0
       ELSE IF RankOf(e1[2][Min(diff)]) > RankOf(e2[2][Min(diff)]) THEN 1
       ELSE 0 - 1

\* HandComparator.compare_hands: 1, -1 or 0
CompareHands(hand1, hand2) == CompareEvaluated(Evaluate(hand1), Evaluate(hand2))

(***************************************************************************)
(* Deck.                                                                   *)
(***************************************************************************)
\* a reset with the loops exchanged: for rank in Rank: for suit in Suit
DeckResetByRank == [i \in 1 .. 52 |-> ((i - 1) % 4) * 13 + ((i - 1) \div 4)] \o <<>>

\* Deck.reset: for suit in Suit: for rank in Rank: append Card(rank, suit)
DeckReset == [i \in 1 .. 52 |-> i - 1] \o <<>>

\* a riffle that takes every card of the first half twice and none of the second
RiffleFirstHalfTwice(s) == [i \in 1 .. Len(s) |-> s[(i + 1) \div 2]] \o <<>>

\* one riffle of the two halves of s
Riffle(s) ==
    LET n == Len(s)
        half == (n + 1) \div 2
    IN [i \in 1 .. n |-> IF i % 2 = 1 THEN s[(i + 1) \div 2] ELSE s[half + (i \div 2)]]
       \o <<>>

RECURSIVE RiffleTimes(_, _)
RiffleTimes(s, k) == IF k = 0 THEN s ELSE RiffleTimes(Riffle(s), k - 1)

\* s cut r cards from the bottom
Rotate(s, r) == [i \in 1 .. Len(s) |-> s[((i - 1 + r) % Len(s)) + 1]] \o <<>>

\* Deck.shuffle: random.shuffle returns some permutation of the list; the
\* model explores the permutations k = 1 .. NumShuffles of this family
ShuffleOutcome(s, k) ==
    IF Len(s) = 0 THEN s ELSE Rotate(RiffleTimes(s, k), k + 6)

\* Deck.deal: cards.pop() takes the last card of the list
DealCard(d) == d[Len(d)]
DealRest(d) == SubSeq(d, 1, Len(d) - 1)

\* a deal_multiple that returns the cards in the order they lie in the deck
DealMultipleInDeckOrder(d, count) == SubSeq(d, Len(d) - count + 1, Len(d))

\* Deck.deal_multiple: count pops, in dealing order
DealMultiple(d, count) == [i \in 1 .. count |-> d[Len(d) - i + 1]] \o <<>>
\* a deal_multiple that leaves the last card it dealt in the deck
DealMultipleRestKeepingLast(d, count) == SubSeq(d, 1, Len(d) - count + 1)

DealMultipleRest(d, count) == SubSeq(d, 1, Len(d) - count)

(***************************************************************************)
(* Game state (GameState, PlayerState) and the controller's position.      *)
(***************************************************************************)
VARIABLES
    stack,                      \* PlayerState.stack, per seat
    current_bet,                \* PlayerState.current_bet
    folded,                     \* PlayerState.folded
    all_in,                     \* PlayerState.all_in
    last_action,                \* PlayerState.last_action
    hole_cards,                 \* PlayerState.hole_cards
    deck,                       \* GameState.deck.cards
    community_cards,            \* GameState.community_cards
    current_pot,                \* GameState.current_pot
    betting_round,              \* GameState.betting_round
    dealer_position,            \* GameState.dealer_position
    min_raise,                  \* GameState.min_raise
    pc,                         \* where play_hand stands
    round_name,                 \* argument of the running _play_betting_round
    active_players,             \* local of _play_betting_round
    players_acted_since_raise,  \* local of _play_betting_round
    current_player_index,       \* local of _play_betting_round
    hands,                      \* number of play_hand calls so far
    hand_start_stack,           \* history: the stacks when play_hand was called
    resolution,                 \* history: how the last hand was resolved
    winners,                    \* history: who was paid by the last resolution
    raiser,                     \* history: last seat whose BET/RAISE was applied this round
    asked_since_raise,          \* history: seats asked for a decision since then
    illegal,                    \* history: decisions outside the legal action set so far
    actor,                      \* history: the seat that returned the last decision
    requested,                  \* history: the bet_amount of the last decision
    failure,                    \* history: how the decision source failed on the last decision
    num_players,                \* len(self.players): the players added before setup_game
    events,                     \* the events the last step handed to commentator_manager.handle_event
    hand1,                      \* compare_hands: first list of cards
    hand2,                      \* compare_hands: second list of cards
    evaluated,                  \* what HandEvaluator.evaluate returned for hand1 and hand2
    compared,                   \* what compare_hands(hand1, hand2) returned, <<>> before the call
    hand3,                      \* compare_hands: a third list of cards
    comparisons,                \* what compare_hands returned for the pairs of hand1, hand2, hand3
    deck_call,                  \* history: the last method called on a Deck of its own
    deck_count,                 \* history: the count argument of that call
    cards_before,               \* history: Deck.cards when that call began
    dealt_cards,                \* what that call returned, as a list
    raised,                     \* the exception that call raised, "none" if it returned
    deck_calls                  \* history: the number of calls made on the Deck

game_vars == <<stack, current_bet, folded, all_in, last_action, hole_cards, deck,
          community_cards, current_pot, betting_round, dealer_position, min_raise,
          pc, round_name, active_players, players_acted_since_raise,
          current_player_index, hands, hand_start_stack, resolution, winners,
          raiser, asked_since_raise, illegal, actor, requested, failure,
          num_players, events>>

hand_vars == <<hand1, hand2, evaluated, compared, hand3, comparisons>>

deck_vars == <<deck_call, deck_count, cards_before, dealt_cards, raised, deck_calls>>

vars == <<game_vars, hand_vars, deck_vars>>

\* the seats, in seating order: list(self.players.keys())
Seats == 0 .. (num_players - 1)

NoSeat == 0 - 1
\* GameEvent(event_type, player_id=, action=, winner_id=); NoSeat and "None"
\* stand for None
GameEvent(event_type, player_id, action, winner_id) ==
    [event_type |-> event_type, player_id |-> player_id, action |-> action,
     winner_id |-> winner_id]
\* PlayerAction
PlayerAction == {"FOLD", "CHECK", "CALL", "BET", "RAISE", "ALL_IN"}
\* Optional[int] bet amounts: <<>> is None, <<n>> is n
Amounts == {<<>>} \cup {<<n>> : n \in (0 - MaxNegative) .. MaxAmount}

\* the chip fields _place_bet works on
Chips == [stack |-> stack, current_bet |-> current_bet, all_in |-> all_in,
          current_pot |-> current_pot]

\* a _place_bet without the cap at the stack
ActualAmountUncapped(amount, stk) == amount

\* actual_amount = min(amount, player_state.stack)
ActualAmount(amount, stk) == IF amount < stk THEN amount ELSE stk

\* a _place_bet that adds the requested amount, uncapped, to the pot
PlaceBetPotByRequest(S, p, amount) ==
    LET actual == ActualAmount(amount, S.stack[p])
        left == S.stack[p] - actual
    IN [stack |-> [S.stack EXCEPT ![p] = left],
        current_bet |-> [S.current_bet EXCEPT ![p] = @ + actual],
        current_pot |-> S.current_pot + amount,
        all_in |-> [S.all_in EXCEPT ![p] = IF left = 0 THEN TRUE ELSE @]]

\* PokerGame._place_bet
PlaceBet(S, p, amount) ==
    LET actual == ActualAmount(amount, S.stack[p])
        left == S.stack[p] - actual
    IN [stack |-> [S.stack EXCEPT ![p] = left],
        current_bet |-> [S.current_bet EXCEPT ![p] = @ + actual],
        current_pot |-> S.current_pot + actual,
        all_in |-> [S.all_in EXCEPT ![p] = IF left = 0 THEN TRUE ELSE @]]

\* a _place_bet that takes the amount in full from a stack that cannot pay it
GameStatePlaceBetInFull(S, p, amount) ==
    [stack |-> [S.stack EXCEPT ![p] = @ - amount],
     current_bet |-> [S.current_bet EXCEPT ![p] = @ + amount],
     current_pot |-> S.current_pot + amount,
     all_in |-> [S.all_in EXCEPT ![p] = IF S.stack[p] - amount <= 0 THEN TRUE ELSE @]]

\* GameState._place_bet
GameStatePlaceBet(S, p, amount) ==
    LET actual == IF amount < S.stack[p] THEN amount ELSE S.stack[p]
        left == S.stack[p] - actual
    IN [stack |-> [S.stack EXCEPT ![p] = left],
        current_bet |-> [S.current_bet EXCEPT ![p] = @ + actual],
        current_pot |-> S.current_pot + actual,
        all_in |-> [S.all_in EXCEPT ![p] = IF left = 0 THEN TRUE ELSE @]]

SmallBlindPos(d) == (d + 1) % num_players
BigBlindPos(d) == (d + 2) % num_players

\* GameState._deal_hole_cards: seat by seat, deal_multiple(2)
HoleCardsFrom(d) == [p \in Seats |-> <<d[Len(d) - 2 * p], d[Len(d) - 2 * p - 1]>>]

\* PokerGame._count_active_players, on given fields
CountActive(fl, st) == Cardinality({p \in Seats : ~fl[p] /\ st[p] > 0})
CountActivePlayers == CountActive(folded, stack)

\* GameState.get_player_hand
PlayerHand(p) == hole_cards[p] \o community_cards

\* PokerGame.setup_game with n players added: GameState.__init__
SetupTable(n) ==
    /\ num_players = n
    /\ events = <<>>
    /\ stack = [p \in Seats |-> StartingStack]
    /\ current_bet = [p \in Seats |-> 0]
    /\ folded = [p \in Seats |-> FALSE]
    /\ all_in = [p \in Seats |-> FALSE]
    /\ last_action = [p \in Seats |-> "None"]
    /\ hole_cards = [p \in Seats |-> <<>>]
    /\ deck = DeckReset
    /\ community_cards = <<>>
    /\ current_pot = 0
    /\ betting_round = "PREFLOP"
    /\ dealer_position = 0
    /\ min_raise = BigBlind
    /\ pc = "idle"
    /\ round_name = "Preflop"
    /\ active_players = <<>>
    /\ players_acted_since_raise = {}
    /\ current_player_index = 0
    /\ hands = 0
    /\ hand_start_stack = [p \in Seats |-> StartingStack]
    /\ resolution = "none"
    /\ winners = {}
    /\ raiser = NoSeat
    /\ asked_since_raise = {}
    /\ illegal = 0
    /\ actor = NoSeat
    /\ requested = <<>>
    /\ failure = "none"

\* the table of the game: NumSeats players
SetupGame == SetupTable(NumSeats)

\* no method of a Deck of its own has been called
NoDeckCall ==
    /\ deck_call = "none"
    /\ deck_count = 0
    /\ cards_before = <<>>
    /\ dealt_cards = <<>>
    /\ raised = "none"
    /\ deck_calls = 0

\* a game is set up; no hands are handed to the evaluator outside a game
Init ==
    /\ SetupGame
    /\ hand1 = <<>>
    /\ hand2 = <<>>
    /\ evaluated = <<>>
    /\ compared = <<>>
    /\ hand3 = <<>>
    /\ comparisons = <<>>
    /\ NoDeckCall

\* play_hand, first statement: GameState.reset_for_new_hand (deck reset and
\* shuffle, fields cleared, button advanced, _post_blinds, _deal_hole_cards)
StartHand(k) ==
    /\ pc = "idle"
    /\ LET d == (dealer_position + 1) % num_players
           shuffled == ShuffleOutcome(DeckReset, k)
           S0 == [stack |-> stack,
                  current_bet |-> [p \in Seats |-> 0],
                  all_in |-> [p \in Seats |-> FALSE],
                  current_pot |-> 0]
           S1 == GameStatePlaceBet(S0, SmallBlindPos(d), SmallBlind)
           S2 == GameStatePlaceBet(S1, BigBlindPos(d), BigBlind)
       IN /\ deck' = DealMultipleRest(shuffled, 2 * num_players)
          /\ hole_cards' = HoleCardsFrom(shuffled)
          /\ community_cards' = <<>>
          /\ betting_round' = "PREFLOP"
          /\ dealer_position' = d
          /\ min_raise' = BigBlind
          /\ folded' = [p \in Seats |-> FALSE]
          /\ last_action' = [p \in Seats |->
                IF p = SmallBlindPos(d) \/ p = BigBlindPos(d) THEN "BET" ELSE "None"]
          /\ stack' = S2.stack
          /\ current_bet' = S2.current_bet
          /\ all_in' = S2.all_in
          /\ current_pot' = S2.current_pot
    /\ pc' = "blinds"
    /\ hands' = hands + 1
    /\ hand_start_stack' = stack
    /\ resolution' = "none"
    /\ winners' = {}
    /\ UNCHANGED <<round_name, active_players, players_acted_since_raise,
                   current_player_index, raiser, asked_since_raise, illegal, actor, requested, failure>>
    /\ events' = <<GameEvent("hand_start", NoSeat, "None", NoSeat)>>
    /\ UNCHANGED <<num_players, hand_vars, deck_vars>>

\* the hands of a game: play_hand is called while hands have been played
\* fewer than NUM_HANDS times
ResetForNewHand(k) == hands < MaxHands /\ StartHand(k)

\* play_hand, "Post blinds": the two PokerGame._place_bet calls
PostBlinds ==
    /\ pc = "blinds"
    /\ LET S1 == PlaceBet(Chips, SmallBlindPos(dealer_position), SmallBlind)
           S2 == PlaceBet(S1, BigBlindPos(dealer_position), BigBlind)
       IN /\ stack' = S2.stack
          /\ current_bet' = S2.current_bet
          /\ all_in' = S2.all_in
          /\ current_pot' = S2.current_pot
    /\ pc' = "hole_cards"
    /\ UNCHANGED <<folded, last_action, hole_cards, deck, community_cards,
                   betting_round, dealer_position, min_raise, round_name,
                   active_players, players_acted_since_raise, current_player_index,
                   hands, hand_start_stack, resolution, winners, raiser,
                   asked_since_raise, illegal, actor, requested, failure>>
    /\ events' = <<GameEvent("blinds_posted", NoSeat, "None", NoSeat)>>
    /\ UNCHANGED <<num_players, hand_vars, deck_vars>>

\* play_hand, "Deal hole cards to each player": game_state._deal_hole_cards();
\* the Preflop betting round is called next
DealHoleCards ==
    /\ pc = "hole_cards"
    /\ hole_cards' = HoleCardsFrom(deck)
    /\ deck' = DealMultipleRest(deck, 2 * num_players)
    /\ round_name' = "Preflop"
    /\ pc' = "round"
    /\ UNCHANGED <<stack, current_bet, folded, all_in, last_action,
                   community_cards, current_pot, betting_round, dealer_position,
                   min_raise, active_players, players_acted_since_raise,
                   current_player_index, hands, hand_start_stack, resolution,
                   winners, raiser, asked_since_raise, illegal, actor, requested, failure>>
    /\ events' = <<GameEvent("hole_cards_dealt", NoSeat, "None", NoSeat)>>
    /\ UNCHANGED <<num_players, hand_vars, deck_vars>>


(***************************************************************************)
(* PokerGame._play_betting_round                                           *)
(***************************************************************************)
\* a start_pos that is one seat after the button in every round
StartPosAfterDealer(rn) == (dealer_position + 1) % num_players

\* start_pos: dealer + 3 before the flop, dealer + 1 afterwards
StartPos(rn) ==
    IF rn = "Preflop" THEN (dealer_position + 3) % num_players
    ELSE (dealer_position + 1) % num_players

\* ordered_player_ids = player_ids[start_pos:] + player_ids[:start_pos]
OrderedPlayerIds(start) ==
    [i \in 1 .. num_players |-> (start + i - 1) % num_players] \o <<>>

\* a filter that keeps the players who are all-in or have no chips
NeedsToActIgnoringAllIn(p) == ~folded[p]

\* a filter that keeps the players who have folded
NeedsToActIgnoringFolds(p) == ~all_in[p] /\ stack[p] > 0

\* the players who need to act: not folded, not all-in, with chips
NeedsToAct(p) == ~folded[p] /\ ~all_in[p] /\ stack[p] > 0

\* a play_hand that goes to its last statement after any betting round
AfterRoundToShowdown(rn) == "check_showdown"

\* where play_hand continues when the round returns
AfterRound(rn) ==
    CASE rn = "Preflop" -> "check_flop"
      [] rn = "Flop" -> "check_turn"
      [] rn = "Turn" -> "check_river"
      [] OTHER -> "check_showdown"

\* max(p.current_bet for p in game_state.players.values())
CurrentHighestBet(cb) == Max({cb[p] : p \in Seats})
CallAmount(p) == CurrentHighestBet(current_bet) - current_bet[p]

\* a remove that takes the seat behind p off the list, and p when p is last
RemoveFollowing(s, p) ==
    LET at == Min({i \in 1 .. Len(s) : s[i] = p} \cup {Len(s)})
        gone == IF at < Len(s) THEN at + 1 ELSE at
    IN SubSeq(s, 1, gone - 1) \o SubSeq(s, gone + 1, Len(s))

\* list.remove(p)
Remove(s, p) == SelectSeq(s, LAMBDA q : q # p)

\* _play_betting_round up to the while loop
BeginBettingRound ==
    /\ pc = "round"
    /\ LET act == SelectSeq(OrderedPlayerIds(StartPos(round_name)), NeedsToAct)
       IN /\ active_players' = act
          /\ pc' = IF act = <<>> THEN AfterRound(round_name) ELSE "betting"
    /\ players_acted_since_raise' = {}
    /\ current_player_index' = 0
    /\ raiser' = NoSeat
    /\ asked_since_raise' = {}
    /\ UNCHANGED <<stack, current_bet, folded, all_in, last_action, hole_cards,
                   deck, community_cards, current_pot, betting_round,
                   dealer_position, min_raise, round_name, hands,
                   hand_start_stack, resolution, winners, illegal, actor, requested, failure>>
    /\ events' = <<>>
    /\ UNCHANGED <<num_players, hand_vars, deck_vars>>

\* the player whose decision is requested
CurrentPlayer == active_players[current_player_index + 1]

\* a loop in which a bet or raise adds the bettor to the set without resetting it
ActedAfterNoReset(acted, p, action, placing) ==
    CASE action = "CHECK" -> acted \cup {p}
      [] action \in {"CALL", "BET", "RAISE"} /\ placing -> acted \cup {p}
      [] OTHER -> acted

\* a loop in which a player who folds joins the set
ActedAfterFoldsJoin(acted, p, action, placing) ==
    CASE action \in {"CHECK", "FOLD"} -> acted \cup {p}
      [] action = "CALL" /\ placing -> acted \cup {p}
      [] action \in {"BET", "RAISE"} /\ placing -> {p}
      [] OTHER -> acted

\* a loop in which a CHECK does not join the set
ActedAfterChecksForgotten(acted, p, action, placing) ==
    CASE action = "CALL" /\ placing -> acted \cup {p}
      [] action \in {"BET", "RAISE"} /\ placing -> {p}
      [] OTHER -> acted

\* a BET or RAISE resets the set to the bettor, a CHECK or CALL joins it
ActedAfter(acted, p, action, placing) ==
    CASE action = "CHECK" -> acted \cup {p}
      [] action = "CALL" /\ placing -> acted \cup {p}
      [] action \in {"BET", "RAISE"} /\ placing -> {p}
      [] OTHER -> acted

\* "If all active players have acted since the last raise, betting is done"
AllActed(active, acted) == Range(active) \subseteq acted

\* one pass of the while loop: the decision (action, bet_amount) of the
\* current player is applied, then the loop's exits are tested
Act(action, bet_amount) ==
    /\ pc = "betting"
    /\ LET p == CurrentPlayer
           placing == action \in {"CALL", "BET", "RAISE"} /\ bet_amount # <<>>
           S1 == IF placing THEN PlaceBet(Chips, p, bet_amount[1]) ELSE Chips
           folded1 == IF action = "FOLD" THEN [folded EXCEPT ![p] = TRUE] ELSE folded
           acted1 == ActedAfter(players_acted_since_raise, p, action, placing)
           removed == action = "FOLD" \/ S1.all_in[p]
           active1 == IF removed THEN Remove(active_players, p) ELSE active_players
           adjusted == IF removed THEN current_player_index - 1
                       ELSE current_player_index
           few == CountActive(folded1, S1.stack) <= 1
           wrapped == adjusted + 1 >= Len(active1)
           done == few \/ (wrapped /\ AllActed(active1, acted1))
       IN /\ last_action' = [last_action EXCEPT ![p] = action]
          /\ folded' = folded1
          /\ stack' = S1.stack
          /\ current_bet' = S1.current_bet
          /\ all_in' = S1.all_in
          /\ current_pot' = S1.current_pot
          /\ pc' = IF done THEN AfterRound(round_name) ELSE "betting"
          /\ active_players' = active1
          /\ players_acted_since_raise' = acted1
          /\ current_player_index' =
                IF few THEN adjusted
                ELSE IF wrapped /\ ~done THEN 0
                ELSE adjusted + 1
          /\ IF action \in {"BET", "RAISE"} /\ placing
             THEN raiser' = p /\ asked_since_raise' = {}
             ELSE raiser' = raiser /\ asked_since_raise' = asked_since_raise \cup {p}
          /\ actor' = p
          /\ requested' = bet_amount
          /\ events' = IF done THEN <<>>
                       ELSE <<GameEvent("player_action", p, action, NoSeat)>>
    /\ UNCHANGED <<hole_cards, deck, community_cards, betting_round,
                   dealer_position, min_raise, round_name, hands,
                   hand_start_stack, resolution, winners>>
    /\ UNCHANGED <<num_players, hand_vars, deck_vars>>

(***************************************************************************)
(* PokerGame.play_hand after the Preflop round                             *)
(***************************************************************************)
\* "If more than one player is still in the hand, continue to the flop"
DealFlop ==
    /\ pc = "check_flop"
    /\ CountActivePlayers > 1
    /\ community_cards' = community_cards \o DealMultiple(DealRest(deck), 3)
    /\ deck' = DealMultipleRest(DealRest(deck), 3)
    /\ betting_round' = "FLOP"
    /\ round_name' = "Flop"
    /\ pc' = "round"
    /\ UNCHANGED <<stack, current_bet, folded, all_in, last_action, hole_cards,
                   current_pot, dealer_position, min_raise, active_players,
                   players_acted_since_raise, current_player_index, hands,
                   hand_start_stack, resolution, winners, raiser, asked_since_raise, illegal, actor, requested, failure>>
    /\ events' = <<GameEvent("flop_dealt", NoSeat, "None", NoSeat)>>
    /\ UNCHANGED <<num_players, hand_vars, deck_vars>>

DealTurn ==
    /\ pc = "check_turn"
    /\ CountActivePlayers > 1
    /\ community_cards' = Append(community_cards, DealCard(DealRest(deck)))
    /\ deck' = DealRest(DealRest(deck))
    /\ betting_round' = "TURN"
    /\ round_name' = "Turn"
    /\ pc' = "round"
    /\ UNCHANGED <<stack, current_bet, folded, all_in, last_action, hole_cards,
                   current_pot, dealer_position, min_raise, active_players,
                   players_acted_since_raise, current_player_index, hands,
                   hand_start_stack, resolution, winners, raiser, asked_since_raise, illegal, actor, requested, failure>>
    /\ events' = <<GameEvent("turn_dealt", NoSeat, "None", NoSeat)>>
    /\ UNCHANGED <<num_players, hand_vars, deck_vars>>

DealRiver ==
    /\ pc = "check_river"
    /\ CountActivePlayers > 1
    /\ community_cards' = Append(community_cards, DealCard(DealRest(deck)))
    /\ deck' = DealRest(DealRest(deck))
    /\ betting_round' = "RIVER"
    /\ round_name' = "River"
    /\ pc' = "round"
    /\ UNCHANGED <<stack, current_bet, folded, all_in, last_action, hole_cards,
                   current_pot, dealer_position, min_raise, active_players,
                   players_acted_since_raise, current_player_index, hands,
                   hand_start_stack, resolution, winners, raiser, asked_since_raise, illegal, actor, requested, failure>>
    /\ events' = <<GameEvent("river_dealt", NoSeat, "None", NoSeat)>>
    /\ UNCHANGED <<num_players, hand_vars, deck_vars>>

\* the same three tests when at most one player with chips is left
SkipStreet ==
    /\ pc \in {"check_flop", "check_turn", "check_river"}
    /\ CountActivePlayers <= 1
    /\ pc' = CASE pc = "check_flop" -> "check_turn"
               [] pc = "check_turn" -> "check_river"
               [] OTHER -> "check_showdown"
    /\ UNCHANGED <<stack, current_bet, folded, all_in, last_action, hole_cards,
                   deck, community_cards, current_pot, betting_round,
                   dealer_position, min_raise, round_name, active_players,
                   players_acted_since_raise, current_player_index, hands,
                   hand_start_stack, resolution, winners, raiser, asked_since_raise, illegal, actor, requested, failure>>
    /\ events' = <<>>
    /\ UNCHANGED <<num_players, hand_vars, deck_vars>>

\* a showdown that every seat enters, folded or not
ContendersWithFolded == [i \in 1 .. num_players |-> i - 1] \o <<>>

\* player_hands: the seats that have not folded, in seating order
Contenders == SelectSeq([i \in 1 .. num_players |-> i - 1], LAMBDA p : ~folded[p])

\* a comparison that stops at the hand category and ignores the card ranks
ShowdownComparisonByCategory(p, best) ==
    CompareEvaluated(<<Evaluate(PlayerHand(p))[1], <<>> >>,
                     <<Evaluate(PlayerHand(best))[1], <<>> >>)

\* HandComparator.compare_hands(full_hand, player_hands[best_player_id][2])
ShowdownComparison(p, best) == CompareHands(PlayerHand(p), PlayerHand(best))

\* _showdown, "Compare each player's hand against the current best hand":
\* step(ps, w, best, c) handles the head of ps, whose comparison gave c
RECURSIVE ShowdownPass(_, _, _)
ShowdownStep(ps, w, best, c) ==
    IF c > 0 THEN ShowdownPass(Tail(ps), <<Head(ps)>>, Head(ps))
    ELSE IF c = 0 THEN ShowdownPass(Tail(ps), Append(w, Head(ps)), best)
    ELSE ShowdownPass(Tail(ps), w, best)

\* "if best_player_id is None" the first contender becomes the best
ShowdownPass(ps, w, best) ==
    IF ps = <<>> THEN w
    ELSE ShowdownStep(ps, w, best,
             IF best = NoSeat THEN 1 ELSE ShowdownComparison(Head(ps), best))

ShowdownWinners == ShowdownPass(Contenders, <<>>, NoSeat)

\* pot_share = current_pot // len(winners)
PotShare(pot, n) == pot \div n

\* "for player_id in winners: ... stack += pot_share"
ShowdownPays(w) ==
    /\ stack' = [p \in Seats |->
                    IF p \in Range(w)
                    THEN stack[p] + PotShare(current_pot, Len(w)) ELSE stack[p]]
    /\ winners' = Range(w)
    /\ events' = <<GameEvent("showdown", NoSeat, "None", NoSeat)>> \o
                 (IF Len(w) = 1
                  THEN <<GameEvent("winner_determined", NoSeat, "None", w[1])>>
                  ELSE <<>>)

\* play_hand, "Showdown if more than one player is still in the hand"
Showdown ==
    /\ pc = "check_showdown"
    /\ CountActivePlayers > 1
    /\ ShowdownPays(ShowdownWinners)
    /\ resolution' = "showdown"
    /\ pc' = "idle"
    /\ active_players' = <<>>
    /\ players_acted_since_raise' = {}
    /\ current_player_index' = 0
    /\ raiser' = NoSeat
    /\ asked_since_raise' = {}
    /\ actor' = NoSeat
    /\ requested' = <<>>
    /\ failure' = "none"
    /\ UNCHANGED <<current_bet, folded, all_in, last_action, hole_cards, deck,
                   community_cards, current_pot, betting_round, dealer_position,
                   min_raise, round_name, hands, hand_start_stack, illegal>>
    /\ UNCHANGED <<num_players, hand_vars, deck_vars>>

\* play_hand, "Only one player left, they win by default": the first seat
\* that has not folded takes the pot; play_hand returns
DefaultWin ==
    /\ pc = "check_showdown"
    /\ CountActivePlayers <= 1
    /\ IF Contenders = <<>>
       THEN stack' = stack /\ winners' = {} /\ events' = <<>>
       ELSE /\ stack' = [stack EXCEPT ![Head(Contenders)] = @ + current_pot]
            /\ winners' = {Head(Contenders)}
            /\ events' = <<GameEvent("winner_determined", NoSeat, "None",
                                     Head(Contenders))>>
    /\ resolution' = "default"
    /\ pc' = "idle"
    /\ active_players' = <<>>
    /\ players_acted_since_raise' = {}
    /\ current_player_index' = 0
    /\ raiser' = NoSeat
    /\ asked_since_raise' = {}
    /\ actor' = NoSeat
    /\ requested' = <<>>
    /\ failure' = "none"
    /\ UNCHANGED <<current_bet, folded, all_in, last_action, hole_cards, deck,
                   community_cards, current_pot, betting_round, dealer_position,
                   min_raise, round_name, hands, hand_start_stack, illegal>>
    /\ UNCHANGED <<num_players, hand_vars, deck_vars>>

(***************************************************************************)
(* Decision sources (Player.get_action).                                   *)
(***************************************************************************)
\* the amounts returned with an action; the loop reads bet_amount only for
\* CALL, BET and RAISE
AmountsFor(action) ==
    IF action \in {"CALL", "BET", "RAISE"} THEN Amounts ELSE {<<>>}

\* the legal action set with its amounts: fold; check when nothing is owed;
\* call the owed amount, capped at the stack; bet when nothing is owed; raise
\* by more than the call when the stack exceeds it
LegalAmounts(p, action) ==
    LET owed == CallAmount(p)
    IN CASE action = "FOLD" -> {<<>>}
         [] action = "CHECK" -> IF owed = 0 THEN {<<>>} ELSE {}
         [] action = "CALL" ->
                IF owed > 0 THEN {<<ActualAmount(owed, stack[p])>>} ELSE {}
         [] action = "BET" ->
                IF owed = 0 THEN {<<n>> : n \in 1 .. stack[p]} ELSE {}
         [] action = "RAISE" ->
                IF owed > 0 /\ stack[p] > owed
                THEN {<<n>> : n \in (owed + 1) .. stack[p]} ELSE {}
         [] OTHER -> {}

LegalDecision(p, action, bet_amount) == bet_amount \in LegalAmounts(p, action)

\* LLMRobot._get_available_actions: the keys of available_actions, the
\* action set the decision source is offered
AvailableActions(p) ==
    LET call_amount == CallAmount(p)
    IN {"FOLD"}
       \cup (IF call_amount = 0 THEN {"CHECK"} ELSE {})
       \cup (IF call_amount > 0 /\ stack[p] >= call_amount THEN {"CALL"} ELSE {})
       \cup (IF stack[p] > call_amount
             THEN (IF call_amount = 0 THEN {"BET"} ELSE {"RAISE"})
             ELSE {})

\* RandomRobot.get_action: the list available_actions, as a set
RandomRobotAvailableActions(p) ==
    LET call_amount == CallAmount(p)
    IN {"FOLD"}
       \cup (IF call_amount = 0 THEN {"CHECK"} ELSE {})
       \cup (IF call_amount > 0 /\ stack[p] >= call_amount THEN {"CALL"} ELSE {})
       \cup (IF stack[p] > call_amount
             THEN (IF call_amount = 0 THEN {"BET"} ELSE {"RAISE"})
             ELSE {})

\* any Tuple[PlayerAction, Optional[int]] may come back, at most MaxIllegal
\* times in a game one outside the legal action set
Decide ==
    /\ pc = "betting"
    /\ \E action \in PlayerAction :
         \E bet_amount \in LegalAmounts(CurrentPlayer, action) \cup
                            (IF illegal < MaxIllegal THEN AmountsFor(action) ELSE {}) :
            /\ illegal' = IF LegalDecision(CurrentPlayer, action, bet_amount)
                          THEN illegal ELSE illegal + 1
            /\ failure' = "none"
            /\ Act(action, bet_amount)

\* a decision source that stays inside the legal action set
DecideLegal ==
    /\ pc = "betting"
    /\ \E action \in PlayerAction :
         \E bet_amount \in LegalAmounts(CurrentPlayer, action) :
            /\ illegal' = illegal
            /\ failure' = "none"
            /\ Act(action, bet_amount)

\* LLMRobot.get_action, "except Exception": "Simple fallback strategy"
FallbackOnError(p) ==
    LET call_amount == CallAmount(p)
    IN IF call_amount = 0 THEN <<"CHECK", <<>> >>
       ELSE IF call_amount <= BigBlind * 2 THEN <<"CALL", <<call_amount>> >>
       ELSE <<"FOLD", <<>> >>

\* LLMRobot._parse_llm_response, "Default to the safest option if we can't
\* parse the response"; available_actions[CALL] is call_amount
FallbackOnUnparsable(p) ==
    IF "CHECK" \in AvailableActions(p) THEN <<"CHECK", <<>> >>
    ELSE IF "CALL" \in AvailableActions(p) THEN <<"CALL", <<CallAmount(p)>> >>
    ELSE <<"FOLD", <<>> >>

\* the decision get_action returns when the decision source fails
Fallback(kind, p) ==
    IF kind = "raises" THEN FallbackOnError(p) ELSE FallbackOnUnparsable(p)

\* the decision source of the current player fails: agent.run_sync raises,
\* or its answer names no action that can be parsed; get_action returns the
\* fallback and the loop applies it
DecideFallback ==
    /\ pc = "betting"
    /\ \E kind \in {"raises", "unparsable"} :
          /\ failure' = kind
          /\ illegal' = illegal
          /\ Act(Fallback(kind, CurrentPlayer)[1], Fallback(kind, CurrentPlayer)[2])

NewHand == \E k \in 1 .. NumShuffles : ResetForNewHand(k)

Next ==
    \/ NewHand
    \/ PostBlinds
    \/ DealHoleCards
    \/ BeginBettingRound
    \/ Decide
    \/ DealFlop
    \/ DealTurn
    \/ DealRiver
    \/ SkipStreet
    \/ Showdown
    \/ DefaultWin

Spec == Init /\ [][Next]_vars

NextLegal ==
    \/ NewHand
    \/ PostBlinds
    \/ DealHoleCards
    \/ BeginBettingRound
    \/ DecideLegal
    \/ DealFlop
    \/ DealTurn
    \/ DealRiver
    \/ SkipStreet
    \/ Showdown
    \/ DefaultWin

SpecLegal == Init /\ [][NextLegal]_vars

\* the steps of play_hand before its last statement
HandStep ==
    \/ PostBlinds
    \/ DealHoleCards
    \/ BeginBettingRound
    \/ DecideLegal
    \/ DealFlop
    \/ DealTurn
    \/ DealRiver
    \/ SkipStreet

\* the last statement of play_hand, the showdown or the default win, is executed
ResolveHand == pc = "check_showdown" /\ pc' = "idle"

\* play_hand and _play_betting_round run on: get_action returns, and the
\* statement that comes next is executed
SpecLegalFair == SpecLegal /\ WF_vars(HandStep) /\ WF_pc(ResolveHand)

\* legal decisions, and decision sources that fail
NextFallback ==
    \/ NewHand
    \/ PostBlinds
    \/ DealHoleCards
    \/ BeginBettingRound
    \/ DecideLegal
    \/ DecideFallback
    \/ DealFlop
    \/ DealTurn
    \/ DealRiver
    \/ SkipStreet
    \/ Showdown
    \/ DefaultWin

SpecFallback == Init /\ [][NextFallback]_vars

\* hands played in a long game (NUM_HANDS), in which the button goes round
\* the table
LongGameHands == 3

NewHandOfLongGame ==
    /\ hands < LongGameHands
    /\ \E k \in 1 .. NumShuffles : StartHand(k)

\* a long game of players who decide inside the legal action set, or whose
\* decision source fails
NextLongGame ==
    \/ NewHandOfLongGame
    \/ PostBlinds
    \/ DealHoleCards
    \/ BeginBettingRound
    \/ DecideLegal
    \/ DecideFallback
    \/ DealFlop
    \/ DealTurn
    \/ DealRiver
    \/ SkipStreet
    \/ Showdown
    \/ DefaultWin

SpecLongGame == Init /\ [][NextLongGame]_vars

\* a game of two players
InitHeadsUp ==
    /\ SetupTable(2)
    /\ hand1 = <<>>
    /\ hand2 = <<>>
    /\ evaluated = <<>>
    /\ compared = <<>>
    /\ hand3 = <<>>
    /\ comparisons = <<>>
    /\ NoDeckCall

SpecHeadsUp == InitHeadsUp /\ [][Next]_vars

(***************************************************************************)
(* HandEvaluator.evaluate and HandComparator.compare_hands on their own:   *)
(* every pair of hands of 5 to 7 cards of a small deck is evaluated, then  *)
(* compared.                                                               *)
(***************************************************************************)
\* the deck the hands are drawn from: Ace, Two, Three, Four, Five of Clubs,
\* Six of Diamonds, Two and Three of Hearts, then Two of Spades and Seven of
\* Diamonds
HandDeck == <<12, 0, 1, 2, 3, 17, 26, 27, 39, 18>>
\* how many cards of HandDeck are in play
HandDeckSize == 8
HandCards == SubSeq(HandDeck, 1, HandDeckSize)

\* the lists of 5 to 7 distinct cards, in deck order
HandInputs ==
    {SelectSeq(HandCards, LAMBDA c : c \in S) :
        S \in {T \in SUBSET Range(HandCards) : Cardinality(T) \in 5 .. 7}}

InitHands ==
    /\ SetupGame
    /\ hand1 \in HandInputs
    /\ hand2 \in HandInputs
    /\ evaluated = <<>>
    /\ compared = <<>>
    /\ hand3 = <<>>
    /\ comparisons = <<>>
    /\ NoDeckCall

\* HandEvaluator.evaluate(hand1), HandEvaluator.evaluate(hand2)
EvaluateHands ==
    /\ hand1 # <<>>
    /\ evaluated = <<>>
    /\ evaluated' = <<Evaluate(hand1), Evaluate(hand2)>>
    /\ UNCHANGED <<hand1, hand2, compared, hand3, comparisons>>
    /\ UNCHANGED <<game_vars, deck_vars>>

\* HandComparator.compare_hands(hand1, hand2)
CompareTheHands ==
    /\ evaluated # <<>>
    /\ compared = <<>>
    /\ compared' = <<CompareHands(hand1, hand2)>>
    /\ UNCHANGED <<hand1, hand2, evaluated, hand3, comparisons>>
    /\ UNCHANGED <<game_vars, deck_vars>>

NextHands ==
    \/ EvaluateHands
    \/ CompareTheHands

SpecHands == InitHands /\ [][NextHands]_vars

(***************************************************************************)
(* HandEvaluator.evaluate on hands of every category: every list of 5 to 7 *)
(* cards of a deck that holds a royal flush, four Nines, three Aces and a  *)
(* low Club is evaluated, in deck order and in the opposite order.         *)
(***************************************************************************)
\* Ten of Clubs, Nine of Diamonds, Ace of Clubs, Jack of Clubs, Nine of
\* Hearts, Ace of Diamonds, Queen of Clubs, Nine of Spades, King of Clubs, Ace of
\* Hearts, Nine of Clubs, Two of Clubs, then King of Diamonds
EvaluateDeck == <<8, 20, 12, 9, 33, 25, 10, 46, 11, 38, 7, 0, 24>>
\* how many cards of EvaluateDeck are in play
EvaluateDeckSize == 12
EvaluateCards == SubSeq(EvaluateDeck, 1, EvaluateDeckSize)

\* the list s from its last member to its first
Reverse(s) == [i \in 1 .. Len(s) |-> s[Len(s) - i + 1]] \o <<>>

\* the lists of 5 to 7 distinct cards, in deck order
EvaluateInputs ==
    {SelectSeq(EvaluateCards, LAMBDA c : c \in S) :
        S \in {T \in SUBSET Range(EvaluateCards) : Cardinality(T) \in 5 .. 7}}

\* the same cards are handed to evaluate in two orders
InitEvaluate ==
    /\ SetupGame
    /\ hand1 \in EvaluateInputs
    /\ hand2 = Reverse(hand1)
    /\ evaluated = <<>>
    /\ compared = <<>>
    /\ hand3 = <<>>
    /\ comparisons = <<>>
    /\ NoDeckCall

SpecEvaluate == InitEvaluate /\ [][NextHands]_vars

(***************************************************************************)
(* HandComparator.compare_hands as an order: three hands of 5 to 7 cards   *)
(* of a small deck are compared with each other and with themselves.       *)
(***************************************************************************)
\* how many cards of HandDeck are in play
OrderDeckSize == 7
OrderCards == SubSeq(HandDeck, 1, OrderDeckSize)

\* the lists of 5 to 7 distinct cards, in deck order
OrderInputs ==
    {SelectSeq(OrderCards, LAMBDA c : c \in S) :
        S \in {T \in SUBSET Range(OrderCards) : Cardinality(T) \in 5 .. 7}}

InitOrder ==
    /\ SetupGame
    /\ hand1 \in OrderInputs
    /\ hand2 \in OrderInputs
    /\ hand3 \in OrderInputs
    /\ evaluated = <<>>
    /\ compared = <<>>
    /\ comparisons = <<>>
    /\ NoDeckCall

\* the evaluations compare_hands begins with: HandEvaluator.evaluate of each
\* of the three hands (evaluate depends on its argument only, so every call
\* of compare_hands below gets these)
EvaluateThree ==
    /\ hand3 # <<>>
    /\ evaluated = <<>>
    /\ evaluated' = <<Evaluate(hand1), Evaluate(hand2), Evaluate(hand3)>>
    /\ UNCHANGED <<hand1, hand2, hand3, compared, comparisons>>
    /\ UNCHANGED <<game_vars, deck_vars>>

\* compare_hands(hand1, hand2), compare_hands(hand2, hand1),
\* compare_hands(hand1, hand1), compare_hands(hand2, hand3),
\* compare_hands(hand1, hand3), after their calls of evaluate
CompareThree ==
    /\ hand3 # <<>>
    /\ evaluated # <<>>
    /\ comparisons = <<>>
    /\ comparisons' = <<CompareEvaluated(evaluated[1], evaluated[2]),
                        CompareEvaluated(evaluated[2], evaluated[1]),
                        CompareEvaluated(evaluated[1], evaluated[1]),
                        CompareEvaluated(evaluated[2], evaluated[3]),
                        CompareEvaluated(evaluated[1], evaluated[3])>>
    /\ UNCHANGED <<hand1, hand2, hand3, evaluated, compared>>
    /\ UNCHANGED <<game_vars, deck_vars>>

NextOrder ==
    \/ EvaluateThree
    \/ CompareThree

SpecOrder == InitOrder /\ [][NextOrder]_vars

(***************************************************************************)
(* A Deck on its own: Deck() builds the full deck, then reset, shuffle,    *)
(* deal and deal_multiple are called in any order.                         *)
(***************************************************************************)
\* calls made on the deck
MaxDeckCalls == 4
\* the count arguments of deal_multiple: none, a few, half a deck, a full
\* deck, more than a deck
DealCounts == {0, 2, 3, 26, 52, 53}

\* what a call on the deck leaves alone
DeckCall(name, count) ==
    /\ deck_calls < MaxDeckCalls
    /\ deck_calls' = deck_calls + 1
    /\ deck_call' = name
    /\ deck_count' = count
    /\ cards_before' = deck
    /\ UNCHANGED <<stack, current_bet, folded, all_in, last_action, hole_cards,
                   community_cards, current_pot, betting_round, dealer_position,
                   min_raise, pc, round_name, active_players,
                   players_acted_since_raise, current_player_index, hands,
                   hand_start_stack, resolution, winners, raiser,
                   asked_since_raise, illegal, actor, requested, failure,
                   num_players, events>>
    /\ UNCHANGED hand_vars

\* Deck.reset()
Reset ==
    /\ DeckCall("reset", 0)
    /\ deck' = DeckReset
    /\ dealt_cards' = <<>>
    /\ raised' = "none"

\* Deck.shuffle()
Shuffle ==
    /\ DeckCall("shuffle", 0)
    /\ \E k \in 1 .. NumShuffles : deck' = ShuffleOutcome(deck, k)
    /\ dealt_cards' = <<>>
    /\ raised' = "none"

\* Deck.deal()
Deal ==
    /\ DeckCall("deal", 1)
    /\ IF deck = <<>>
       THEN /\ raised' = "IndexError"
            /\ dealt_cards' = <<>>
            /\ deck' = deck
       ELSE /\ raised' = "none"
            /\ dealt_cards' = <<DealCard(deck)>>
            /\ deck' = DealRest(deck)

\* Deck.deal_multiple(count)
DealMany ==
    \E count \in DealCounts :
        /\ DeckCall("deal_multiple", count)
        /\ IF Len(deck) < count
           THEN /\ raised' = "IndexError"
                /\ dealt_cards' = <<>>
                /\ deck' = deck
           ELSE /\ raised' = "none"
                /\ dealt_cards' = DealMultiple(deck, count)
                /\ deck' = DealMultipleRest(deck, count)

NextDeck ==
    \/ Reset
    \/ Shuffle
    \/ Deal
    \/ DealMany

SpecDeck == Init /\ [][NextDeck]_vars

TypeOK ==
    /\ pc \in {"idle", "blinds", "hole_cards", "round", "betting", "check_flop",
               "check_turn", "check_river", "check_showdown"}
    /\ \A p \in Seats : last_action[p] \in PlayerAction \cup {"None"}
    /\ Len(deck) <= 52
    /\ Len(community_cards) <= 5


(***************************************************************************)
(* Properties.                                                             *)
(***************************************************************************)
InHand == pc # "idle"
HandOver == pc = "idle" /\ hands > 0
RoundReturned == pc \in {"check_flop", "check_turn", "check_river", "check_showdown"}
NotFolded == {p \in Seats : ~folded[p]}
\* a decision was applied by this step
DecisionStep == pc = "betting"
Total(f) == SumOver(f, Seats)

\* C1: at every point of a hand, from the posting of the blinds on, the pot
\* is the sum over the seats of (stack at hand start - stack), i.e. the
\* stacks plus the pot give the stacks the hand started with
C1_ChipConservation ==
    InHand =>
        /\ Total(stack) + current_pot = Total(hand_start_stack)
        /\ current_pot = Total([p \in Seats |-> hand_start_stack[p] - stack[p]])

\* C1 witness: a raise has been applied in a hand that started from unequal stacks
C1_Witness ==
    /\ pc = "betting"
    /\ hands = 2
    /\ \E p, q \in Seats : hand_start_stack[p] # hand_start_stack[q]
    /\ raiser # NoSeat
    /\ last_action[raiser] = "RAISE"
    /\ current_bet[raiser] > 0

\* C2: when a hand is resolved, the stacks add up to the stacks the hand
\* started with
C2_NoChipLeakage == HandOver => Total(stack) = Total(hand_start_stack)

\* C3: a hand that ends with two or more seats not folded has its five
\* community cards and was resolved by showdown
C3_ShowdownEligibility ==
    HandOver /\ Cardinality(NotFolded) >= 2 =>
        Len(community_cards) = 5 /\ resolution = "showdown"

\* the seats that can still be asked: not folded, not all-in, with chips
Live == {p \in Seats : ~folded[p] /\ ~all_in[p] /\ stack[p] > 0}
HighestLiveBet == Max({current_bet[p] : p \in NotFolded})

\* C4: when a betting round has returned, every seat that is neither folded
\* nor all-in and still has chips has matched the highest bet of the seats
\* that have not folded
C4_BetsMatched ==
    RoundReturned => \A p \in Live : current_bet[p] = HighestLiveBet

\* the seats that answered since the last applied bet or raise
ActedSinceRaise == asked_since_raise \cup (IF raiser = NoSeat THEN {} ELSE {raiser})
\* every seat that is neither folded nor all-in has acted and the bets are equal
RoundClosed ==
    LET open == {p \in Seats : ~folded[p] /\ ~all_in[p]}
    IN /\ open \subseteq ActedSinceRaise
       /\ \A p, q \in open : current_bet[p] = current_bet[q]

\* C5: no decision is requested once every seat that is neither folded nor
\* all-in has acted since the last bet or raise and their bets are equal
C5_NoDecisionAfterClose == pc = "betting" => ~RoundClosed

\* C6 as claimed: after an applied BET or RAISE the acted-since-raise set is
\* the bettor alone, and the round returns only when every other seat that is
\* neither folded nor all-in has been asked again, or at most one seat that
\* has not folded has chips
C6_RaiseReopensAction ==
    /\ raiser # NoSeat /\ asked_since_raise = {} /\ InHand =>
           players_acted_since_raise = {raiser}
    /\ RoundReturned /\ raiser # NoSeat =>
           \/ CountActivePlayers <= 1
           \/ \A q \in Seats \ {raiser} :
                 ~folded[q] /\ ~all_in[q] => q \in asked_since_raise

\* C6 amended: the seats that must have been asked again are those that are
\* neither folded nor all-in and have chips
C6_RaiseReopensActionWithChips ==
    /\ raiser # NoSeat /\ asked_since_raise = {} /\ InHand =>
           players_acted_since_raise = {raiser}
    /\ RoundReturned /\ raiser # NoSeat =>
           \/ CountActivePlayers <= 1
           \/ \A q \in Live \ {raiser} : q \in asked_since_raise

\* C6 witness: a round returned after a raise that two other seats answered
C6_Witness ==
    /\ RoundReturned
    /\ raiser # NoSeat
    /\ CountActivePlayers > 1
    /\ Cardinality(asked_since_raise \ {raiser}) >= 2

\* what _place_bet must do with a request of amount chips from seat p
PlacedAsRequested(p, amount, stack0, bet0, allin0, stack1, bet1, allin1, moved) ==
    IF amount >= stack0
    THEN stack1 = 0 /\ allin1 /\ bet1 = bet0 + stack0 /\ moved = stack0
    ELSE stack1 = stack0 - amount /\ allin1 = allin0 /\ bet1 = bet0 + amount
         /\ moved = amount

\* C7: a call, bet or raise with an amount moves min(amount, stack) from the
\* stack to the current bet and the pot, and sets all_in exactly when the
\* stack is emptied; so do the blinds
C7_AllInCorrectness ==
    [][/\ DecisionStep /\ last_action'[CurrentPlayer] \in {"CALL", "BET", "RAISE"}
          /\ requested' # <<>> =>
             LET p == CurrentPlayer
             IN PlacedAsRequested(p, requested'[1], stack[p], current_bet[p],
                    all_in[p], stack'[p], current_bet'[p], all_in'[p],
                    current_pot' - current_pot)
       /\ pc = "idle" /\ pc' = "blinds" =>
             LET sb == SmallBlindPos(dealer_position')
                 bb == BigBlindPos(dealer_position')
             IN /\ PlacedAsRequested(sb, SmallBlind, stack[sb], 0, FALSE,
                       stack'[sb], current_bet'[sb], all_in'[sb],
                       stack[sb] - stack'[sb])
                /\ PlacedAsRequested(bb, BigBlind, stack[bb], 0, FALSE,
                       stack'[bb], current_bet'[bb], all_in'[bb],
                       stack[bb] - stack'[bb])
                /\ current_pot' = (stack[sb] - stack'[sb]) + (stack[bb] - stack'[bb])
       /\ pc = "blinds" /\ pc' = "hole_cards" =>
             LET sb == SmallBlindPos(dealer_position)
                 bb == BigBlindPos(dealer_position)
             IN /\ PlacedAsRequested(sb, SmallBlind, stack[sb], current_bet[sb],
                       all_in[sb], stack'[sb], current_bet'[sb], all_in'[sb],
                       stack[sb] - stack'[sb])
                /\ PlacedAsRequested(bb, BigBlind, stack[bb], current_bet[bb],
                       all_in[bb], stack'[bb], current_bet'[bb], all_in'[bb],
                       stack[bb] - stack'[bb])
                /\ current_pot' - current_pot =
                       (stack[sb] - stack'[sb]) + (stack[bb] - stack'[bb])
      ]_vars

\* C7 witness: a raise for more than the stack has put the raiser all-in
C7_Witness ==
    /\ actor # NoSeat
    /\ last_action[actor] = "RAISE"
    /\ requested # <<>>
    /\ requested[1] > current_bet[actor]
    /\ all_in[actor]
    /\ stack[actor] = 0

\* C8: no stack, current bet or pot is ever negative
C8_NoNegativeBalances ==
    /\ \A p \in Seats : stack[p] >= 0 /\ current_bet[p] >= 0
    /\ current_pot >= 0

\* the contenders that no other contender's hand beats
Unbeaten ==
    {p \in NotFolded :
        \A q \in NotFolded : CompareHands(PlayerHand(p), PlayerHand(q)) >= 0}

\* the seats of W, and nobody else, are the winners and get floor(pot / |W|)
PaidTo(W) ==
    /\ winners' = W
    /\ \A p \in Seats :
          stack'[p] = stack[p] +
              (IF p \in W THEN current_pot \div Cardinality(W) ELSE 0)

\* C9: the showdown pays floor(pot / number of winners) to exactly the seats
\* that have not folded and whose hand no other such hand beats, and nothing
\* to anybody else
C9_ShowdownPayout ==
    [][pc = "check_showdown" /\ resolution' = "showdown" => PaidTo(Unbeaten)]_vars

\* C9 witness: a showdown among three contenders split the pot between two
\* of them and left a remainder
C9_Witness ==
    /\ HandOver
    /\ resolution = "showdown"
    /\ Cardinality(NotFolded) = 3
    /\ Cardinality(winners) = 2
    /\ current_pot % 2 = 1

\* C10: every decision the betting loop applies is in the legal action set
\* of the acting seat
C10_OnlyLegalApplied ==
    [][DecisionStep =>
          LegalDecision(CurrentPlayer, last_action'[CurrentPlayer], requested')
      ]_vars

\* the action set of the rules for a seat that owes owed and holds stk
LegalActionSet(owed, stk) ==
    {"FOLD"}
    \cup (IF owed = 0 THEN {"CHECK"} ELSE {})
    \cup (IF owed > 0 /\ stk > 0 THEN {"CALL"} ELSE {})
    \cup (IF owed = 0 /\ stk > 0 THEN {"BET"} ELSE {})
    \cup (IF owed > 0 /\ stk > owed THEN {"RAISE"} ELSE {})

\* C11: the action set offered to the seat whose decision is requested is
\* FOLD always, CHECK iff nothing is owed, CALL iff something is owed and the
\* stack is positive (a call for less than owed included), BET iff nothing is
\* owed and the stack is positive, RAISE iff something is owed and the stack
\* exceeds it
C11_LegalActionSet ==
    pc = "betting" =>
        /\ AvailableActions(CurrentPlayer) =
               LegalActionSet(CallAmount(CurrentPlayer), stack[CurrentPlayer])
        /\ RandomRobotAvailableActions(CurrentPlayer) =
               LegalActionSet(CallAmount(CurrentPlayer), stack[CurrentPlayer])

\* the safest action of the rules: check if nothing is owed, else call the
\* owed amount if a call is legal, else fold
SafestAction(owed, stk) ==
    IF owed = 0 THEN <<"CHECK", <<>> >>
    ELSE IF "CALL" \in LegalActionSet(owed, stk) THEN <<"CALL", <<owed>> >>
    ELSE <<"FOLD", <<>> >>

\* C12: when the decision source fails, the decision applied for that turn
\* is CHECK if nothing is owed, otherwise CALL of the owed amount whenever a
\* call is legal, otherwise FOLD; a fallback CHECK moves no chips and sets no
\* flag, and the hand goes on
C12_SafestFallback ==
    [][pc = "betting" /\ failure' # "none" =>
          /\ <<last_action'[CurrentPlayer], requested'>> =
                 SafestAction(CallAmount(CurrentPlayer), stack[CurrentPlayer])
          /\ last_action'[CurrentPlayer] = "CHECK" =>
                 UNCHANGED <<stack, current_bet, current_pot, folded, all_in>>
          /\ pc' \in {"betting", "check_flop", "check_turn", "check_river",
                      "check_showdown"}
      ]_vars

\* the first decision of the running betting round is being requested
FirstDecisionOfRound == pc = "betting" /\ raiser = NoSeat /\ asked_since_raise = {}

\* C13: when the first decision of the Flop, Turn or River round is
\* requested, every seat's current_bet is 0 and its last_action is None
C13_PerRoundReset ==
    FirstDecisionOfRound /\ round_name # "Preflop" =>
        \A p \in Seats : current_bet[p] = 0 /\ last_action[p] = "None"

\* the first seat, in seating order from seat start on, that is not folded,
\* not all-in and has chips
FirstEligibleFrom(start) ==
    (start + Min({k \in 0 .. (num_players - 1) :
                     LET q == (start + k) % num_players
                     IN ~folded[q] /\ ~all_in[q] /\ stack[q] > 0})) % num_players

\* C14: the first decision of the Preflop round is requested from the first
\* eligible seat from the seat after the big blind on, the first decision of
\* the Flop, Turn and River rounds from the first eligible seat from the seat
\* after the button on
C14_ActingOrderOrigin ==
    FirstDecisionOfRound =>
        CurrentPlayer =
            FirstEligibleFrom(IF betting_round = "PREFLOP"
                              THEN (BigBlindPos(dealer_position) + 1) % num_players
                              ELSE (dealer_position + 1) % num_players)

\* C14 witness: the first decision after the flop is requested from a seat
\* further on, because the seat after the button cannot act
C14_Witness ==
    /\ FirstDecisionOfRound
    /\ betting_round # "PREFLOP"
    /\ CurrentPlayer # (dealer_position + 1) % num_players

\* C15: a decision is requested only from a seat that is not folded, not
\* all-in and has chips; the folded and all_in flags stay set for the rest of
\* the hand, so a seat that folded or went all-in is not asked again in it
C15_OnlyEligibleAct ==
    [][/\ pc = "betting" => CurrentPlayer \in Live
       /\ hands' = hands =>
             \A p \in Seats : /\ folded[p] => folded'[p]
                              /\ all_in[p] => all_in'[p]
      ]_vars

\* C15 witness: a decision is requested after the flop while one seat has
\* folded or is all-in from a raise, and another seat has already answered
C15_Witness ==
    /\ pc = "betting"
    /\ betting_round # "PREFLOP"
    /\ \E p \in Seats : folded[p] \/ (all_in[p] /\ last_action[p] = "RAISE")
    /\ asked_since_raise # {}

\* C16: no seat has both the folded flag and the all_in flag set
C16_StatusExclusive == \A p \in Seats : ~(folded[p] /\ all_in[p])

\* C16 witness: in a running hand one seat has folded, another is all-in and
\* a third is neither
C16_Witness ==
    /\ InHand
    /\ \E p, q, r \in Seats :
          /\ folded[p] /\ ~all_in[p]
          /\ all_in[q] /\ ~folded[q]
          /\ ~folded[r] /\ ~all_in[r]

(***************************************************************************)
(* The rules' ranking of poker hands, by enumeration of the 5-card         *)
(* subsets.                                                                *)
(***************************************************************************)
FiveCardSubsets(cards) == {S \in SUBSET Range(cards) : Cardinality(S) = 5}
RanksIn(S) == {RankOf(c) : c \in S}
TimesIn(S, r) == Cardinality({c \in S : RankOf(c) = r})
IsFlush5(S) == Cardinality({SuitOf(c) : c \in S}) = 1
IsWheel5(S) == RanksIn(S) = {ACE, FIVE, FOUR, THREE, TWO}
IsRun5(S) == Cardinality(RanksIn(S)) = 5 /\ Max(RanksIn(S)) - Min(RanksIn(S)) = 4
PairsIn(S) == {r \in RanksIn(S) : TimesIn(S, r) = 2}

\* the category of the five cards S
Category5(S) ==
    IF IsFlush5(S) /\ IsRun5(S) /\ Max(RanksIn(S)) = ACE THEN ROYAL_FLUSH
    ELSE IF IsFlush5(S) /\ (IsRun5(S) \/ IsWheel5(S)) THEN STRAIGHT_FLUSH
    ELSE IF \E r \in RanksIn(S) : TimesIn(S, r) = 4 THEN FOUR_OF_A_KIND
    ELSE IF Cardinality(RanksIn(S)) = 2 THEN FULL_HOUSE
    ELSE IF IsFlush5(S) THEN FLUSH
    ELSE IF IsRun5(S) \/ IsWheel5(S) THEN STRAIGHT
    ELSE IF \E r \in RanksIn(S) : TimesIn(S, r) = 3 THEN THREE_OF_A_KIND
    ELSE IF Cardinality(PairsIn(S)) = 2 THEN TWO_PAIR
    ELSE IF Cardinality(PairsIn(S)) = 1 THEN ONE_PAIR
    ELSE HIGH_CARD

\* the ranks of the cards of S, those of the more frequent ranks of all
\* first, then the higher ranks first
RECURSIVE Arranged(_, _)
Arranged(S, all) ==
    IF S = {} THEN <<>>
    ELSE LET c == CHOOSE x \in S : \A y \in S :
                      15 * TimesIn(all, RankOf(y)) + RankOf(y)
                          <= 15 * TimesIn(all, RankOf(x)) + RankOf(x)
         IN <<RankOf(c)>> \o Arranged(S \ {c}, all)

\* the positional ranks of the five cards S; the wheel is Five-high
Positions5(S) ==
    IF IsWheel5(S) THEN <<FIVE, FOUR, THREE, TWO, ACE>> ELSE Arranged(S, S)

\* category first, then the five positions in order, as one number
Strength(category, ranks) ==
    ((((category * 15 + ranks[1]) * 15 + ranks[2]) * 15 + ranks[3]) * 15
        + ranks[4]) * 15 + ranks[5]

\* the strength of the best 5-card subset of cards
BestStrength(cards) ==
    Max({Strength(Category5(S), Positions5(S)) : S \in FiveCardSubsets(cards)})

\* the strength of what evaluate returned
EvaluatedStrength(e) == Strength(e[1], [i \in 1 .. 5 |-> RankOf(e[2][i])])

\* C17: evaluate returns a category and five cards of the input whose
\* strength (category, then positional ranks, the wheel Five-high) is that of
\* the best 5-card subset of the input
C17_BestHand ==
    evaluated # <<>> =>
        /\ Len(evaluated[1][2]) = 5
        /\ Range(evaluated[1][2]) \subseteq Range(hand1)
        /\ EvaluatedStrength(evaluated[1]) = BestStrength(hand1)

WheelStrength == Strength(STRAIGHT, <<FIVE, FOUR, THREE, TWO, ACE>>)
\* the best 5-card subset of cards is the Ace-to-Five straight: the wheel is
\* the only straight and there is no flush or better
WheelOnly(cards) == BestStrength(cards) = WheelStrength
\* the best 5-card subset of cards is a straight, Six-high or higher
HigherStraight(cards) ==
    /\ BestStrength(cards) > WheelStrength
    /\ BestStrength(cards) < Strength(FLUSH, <<0, 0, 0, 0, 0>>)

\* C18: cards whose only straight is the wheel, without a flush or better,
\* evaluate to Straight with the cards ordered Five, Four, Three, Two, Ace;
\* compare_hands ranks them below every hand that is a Six-high or higher
\* straight and equal to every other wheel
C18_WheelStraight ==
    compared # <<>> /\ WheelOnly(hand1) =>
        /\ evaluated[1][1] = STRAIGHT
        /\ [i \in 1 .. 5 |-> RankOf(evaluated[1][2][i])] =
               <<FIVE, FOUR, THREE, TWO, ACE>>
        /\ HigherStraight(hand2) => compared[1] = 0 - 1
        /\ WheelOnly(hand2) => compared[1] = 0

\* the rank at position i of a best hand returned by evaluate
RankAt(e, i) == RankOf(e[2][i])
\* the positions where the two best hands differ in rank
Differing(e1, e2) == {i \in 1 .. 5 : RankAt(e1, i) # RankAt(e2, i)}

\* C19: compare_hands returns 1 or -1 by the category order when the two
\* evaluated categories differ; when they are equal it is decided by the
\* first of the five positions where the ranks of the two best hands differ,
\* and it returns 0 exactly when all five positions have equal ranks
C19_ComparatorContract ==
    compared # <<>> =>
        LET e1 == evaluated[1]
            e2 == evaluated[2]
        IN /\ compared[1] \in {0 - 1, 0, 1}
           /\ e1[1] > e2[1] => compared[1] = 1
           /\ e1[1] < e2[1] => compared[1] = 0 - 1
           /\ e1[1] = e2[1] =>
                 /\ compared[1] = 0 <=> Differing(e1, e2) = {}
                 /\ Differing(e1, e2) # {} =>
                       LET i == Min(Differing(e1, e2))
                       IN compared[1] =
                              (IF RankAt(e1, i) > RankAt(e2, i) THEN 1 ELSE 0 - 1)

\* C19 witness: two Two-Pair hands with the same pairs were compared and the
\* higher fifth card won
C19_Witness ==
    /\ compared = <<1>>
    /\ evaluated[1][1] = TWO_PAIR
    /\ evaluated[2][1] = TWO_PAIR
    /\ Differing(evaluated[1], evaluated[2]) = {5}
    /\ RankAt(evaluated[1], 5) > RankAt(evaluated[2], 5)

\* the place of a BettingRound value in the enumeration
RoundOrder(b) ==
    CASE b = "PREFLOP" -> 1
      [] b = "FLOP" -> 2
      [] b = "TURN" -> 3
      [] b = "RIVER" -> 4
      [] OTHER -> 5

\* C20: within a hand the betting-round marker only moves forward through
\* Preflop, Flop, Turn, River, Showdown, so no value is entered twice, and a
\* hand resolved by showdown leaves the marker at Showdown
C20_RoundMarker ==
    [][/\ hands' = hands =>
             /\ RoundOrder(betting_round') >= RoundOrder(betting_round)
             /\ betting_round' # betting_round =>
                    RoundOrder(betting_round') = RoundOrder(betting_round) + 1
       /\ pc = "check_showdown" /\ resolution' = "showdown" =>
             betting_round' = "SHOWDOWN"
      ]_vars

\* s is an initial segment of t
IsPrefix(s, t) == Len(s) <= Len(t) /\ SubSeq(t, 1, Len(s)) = s
\* a street is dealt by this step
StreetDealt == hands' = hands /\ community_cards' # community_cards
\* the betting round is closed: every seat that can still act has acted since
\* the last bet or raise, and their bets are equal
ClosedForLive ==
    /\ Live \subseteq ActedSinceRaise
    /\ \A p, q \in Live : current_bet[p] = current_bet[q]

\* C21: the number of community cards is always 0, 3, 4 or 5; within a hand
\* the community cards only grow at their end; the flop takes 4 cards off
\* the deck and adds 3, the turn and the river take 2 and add 1; and a street
\* is dealt only when the betting round before it has returned closed, with
\* more than one seat not folded
C21_StreetDealing ==
    [][/\ Len(community_cards') \in {0, 3, 4, 5}
       /\ hands' = hands => IsPrefix(community_cards, community_cards')
       /\ StreetDealt =>
             /\ Len(community_cards') - Len(community_cards) =
                    (IF community_cards = <<>> THEN 3 ELSE 1)
             /\ Len(deck) - Len(deck') = (IF community_cards = <<>> THEN 4 ELSE 2)
             /\ RoundReturned
             /\ Cardinality(NotFolded) > 1
             /\ ClosedForLive
      ]_vars

\* reset_for_new_hand has run in this step
HandReset == hands' = hands + 1
\* what _post_blinds takes from seat p when the button is on seat d
BlindOf(p, d) ==
    IF p = SmallBlindPos(d) THEN Min({SmallBlind, stack[p]})
    ELSE IF p = BigBlindPos(d) THEN Min({BigBlind, stack[p]})
    ELSE 0

\* C22: reset_for_new_hand moves the button by exactly one seat modulo the
\* number of seats, keeps the seats, leaves every stack as the previous hand
\* left it except for the blind it posts, and clears the pot, the community
\* cards, the current bets, the folded flags, the last actions and the hole
\* cards of the previous hand, so that after it the pot and the current bets
\* hold the blinds only, nobody is folded, only the blind seats have a last
\* action, and the hole cards are two cards of the new deck
C22_HandReset ==
    [][HandReset =>
          LET d == (dealer_position + 1) % num_players
          IN /\ dealer_position' = d
             /\ DOMAIN stack' = Seats
             /\ \A p \in Seats :
                   /\ stack'[p] = stack[p] - BlindOf(p, d)
                   /\ current_bet'[p] = BlindOf(p, d)
                   /\ ~folded'[p]
                   /\ last_action'[p] =
                         (IF p \in {SmallBlindPos(d), BigBlindPos(d)} THEN "BET" ELSE "None")
                   /\ Len(hole_cards'[p]) = 2
                   /\ Range(hole_cards'[p]) \cap Range(deck') = {}
             /\ current_pot' = BlindOf(SmallBlindPos(d), d) + BlindOf(BigBlindPos(d), d)
             /\ community_cards' = <<>>
      ]_vars

\* C22 witness: the third hand of a game has been reset, the button has gone
\* round from the last seat to seat 0, the hand before left unequal stacks,
\* and the big blind seat could not pay its blind in full
C22_Witness ==
    /\ pc = "blinds"
    /\ hands = 3
    /\ dealer_position = 0
    /\ community_cards = <<>>
    /\ \E p, q \in Seats : hand_start_stack[p] # hand_start_stack[q]
    /\ hand_start_stack[BigBlindPos(0)] < BigBlind
    /\ current_bet[BigBlindPos(0)] = hand_start_stack[BigBlindPos(0)]

\* the positions of the list of cards d that hold the card of rank r and suit su
PositionsOf(d, r, su) == {i \in 1 .. Len(d) : RankOf(d[i]) = r /\ SuitOf(d[i]) = su}

\* C23: after Deck.reset(), whatever the deck held before, the deck holds 52
\* cards, exactly one for every pair of a rank and a suit, in one fixed
\* order: the suits one after the other, the ranks of a suit from Two to Ace
C23_ResetFullDeck ==
    deck_call = "reset" =>
        /\ Len(deck) = 52
        /\ \A r \in TWO .. ACE : \A su \in 0 .. 3 :
              Cardinality(PositionsOf(deck, r, su)) = 1
        /\ \A i \in 1 .. Len(deck) :
              /\ SuitOf(deck[i]) = (i - 1) \div 13
              /\ RankOf(deck[i]) = TWO + ((i - 1) % 13)

\* C23 witness: reset was called on a deck that had been shuffled and partly
\* dealt
C23_Witness ==
    /\ deck_call = "reset"
    /\ Len(cards_before) \in 1 .. 51
    /\ cards_before # SubSeq(deck, 1, Len(cards_before))

\* C24: deal() on an empty deck raises the error and leaves the deck empty;
\* deal_multiple(count) on a deck of fewer than count cards raises the same
\* error and leaves the deck as it was; otherwise deal_multiple(count) takes
\* exactly the count top cards off the deck and returns them in the order
\* they are dealt, the top card first
C24_AtomicDealing ==
    /\ deck_call = "deal" /\ cards_before = <<>> =>
          raised = "IndexError" /\ deck = <<>>
    /\ deck_call = "deal_multiple" /\ Len(cards_before) < deck_count =>
          raised = "IndexError" /\ deck = cards_before
    /\ deck_call = "deal_multiple" /\ Len(cards_before) >= deck_count =>
          /\ raised = "none"
          /\ deck = SubSeq(cards_before, 1, Len(cards_before) - deck_count)
          /\ Len(dealt_cards) = deck_count
          /\ \A i \in 1 .. deck_count :
                dealt_cards[i] = cards_before[Len(cards_before) - i + 1]

\* C24 witness: deal_multiple was refused on a deck that still held cards,
\* fewer than were asked for
C24_Witness ==
    /\ deck_call = "deal_multiple"
    /\ raised = "IndexError"
    /\ Len(cards_before) \in 1 .. (deck_count - 1)
    /\ deck = cards_before

\* how often card c lies in the list of cards d
TimesInDeck(d, c) == Cardinality({i \in 1 .. Len(d) : d[i] = c})

FromStartingStacks == \A p \in Seats : hand_start_stack[p] = StartingStack
\* a player went all-in before the flop: the hand has no community cards
AllInPreflop == community_cards = <<>> /\ \E p \in Seats : all_in[p]

\* C26: in a game of two players, a hand that began with both stacks at the
\* starting stack and in which a player went all-in before the flop ends
\* with the two stacks adding up to twice the starting stack
C26_HeadsUpAllIn ==
    HandOver /\ num_players = 2 /\ FromStartingStacks /\ AllInPreflop =>
        Total(stack) = 2 * StartingStack

\* C26 witness: such a hand has ended, the player who went all-in had raised
\* and lost the pot to the other player
C26_Witness ==
    /\ HandOver
    /\ num_players = 2
    /\ FromStartingStacks
    /\ AllInPreflop
    /\ \E p \in Seats :
          /\ all_in[p]
          /\ last_action[p] = "RAISE"
          /\ stack[p] = 0
          /\ winners = Seats \ {p}

\* the player-action events among the events evs that carry player p and
\* action a
PlayerActionEvents(evs, p, a) ==
    {i \in 1 .. Len(evs) :
        /\ evs[i].event_type = "player_action"
        /\ evs[i].player_id = p
        /\ evs[i].action = a}
WinnerEvents(evs) == {i \in 1 .. Len(evs) : evs[i].event_type = "winner_determined"}

\* C27: with commentary enabled, every action applied in a betting round,
\* the last action of the round and the action that ends the hand included,
\* is followed by exactly one player-action event that carries the acting
\* player and the action, and every hand that is resolved, by one winner, by
\* a split pot or by default, produces a winner-determined event
C27_Notifications ==
    [][/\ pc = "betting" =>
             Cardinality(PlayerActionEvents(events', actor', last_action'[actor'])) = 1
       /\ pc = "check_showdown" /\ pc' = "idle" => WinnerEvents(events') # {}
      ]_vars

\* what seat p has put into the pot since the hand began
Contributed(p) == hand_start_stack[p] - stack[p]

\* C28: when the first Preflop decision of a hand is requested, the small
\* blind seat has contributed the small blind, capped at the stack it began
\* the hand with, the big blind seat the big blind, capped the same way, no
\* other seat has contributed, and the pot is the sum of the two
C28_BlindsOnce ==
    FirstDecisionOfRound /\ round_name = "Preflop" =>
        LET sb == SmallBlindPos(dealer_position)
            bb == BigBlindPos(dealer_position)
        IN /\ Contributed(sb) = Min({SmallBlind, hand_start_stack[sb]})
           /\ Contributed(bb) = Min({BigBlind, hand_start_stack[bb]})
           /\ \A p \in Seats \ {sb, bb} : Contributed(p) = 0
           /\ current_pot = Contributed(sb) + Contributed(bb)

\* the seat nearest after seat p, going round the table in seating order,
\* that lies in the set E of seats
NextAfter(p, E) ==
    (p + Min({k \in 1 .. num_players : (p + k) % num_players \in E})) % num_players
\* the seats that are neither folded nor all-in
NotFoldedNotAllIn == {p \in Seats : ~folded[p] /\ ~all_in[p]}

\* C29 as claimed: when a decision has been applied and the betting round
\* goes on, the next decision is requested from the nearest following seat,
\* cyclically, that is not folded and not all-in
C29_TurnOrder ==
    [][pc = "betting" /\ pc' = "betting" =>
          CurrentPlayer' = NextAfter(actor', NotFoldedNotAllIn')
      ]_vars

\* C29 amended: the nearest following seat, cyclically, that is not folded,
\* not all-in and has chips
C29_TurnOrderWithChips ==
    [][pc = "betting" /\ pc' = "betting" =>
          CurrentPlayer' = NextAfter(actor', Live')
      ]_vars

\* C29 witness: the seat that is last in the order of the round has folded,
\* the round goes on, and the turn has wrapped to the head of the list, the
\* nearest seat after it that is not folded, not all-in and has chips
C29_Witness ==
    /\ pc = "betting"
    /\ actor = (StartPos(round_name) + num_players - 1) % num_players
    /\ folded[actor]
    /\ current_player_index = 0
    /\ Len(active_players) = 2
    /\ CurrentPlayer = NextAfter(actor, Live)

\* the hand has been resolved, by showdown or by default
Resolved == pc = "idle" /\ resolution \in {"showdown", "default"}

\* C30: with decision sources that stay inside the legal action set (bets
\* and raises of at least one chip, calls with their amount), every betting
\* round in which a decision is requested returns, and every hand that was
\* begun is resolved by showdown or by default
C30_Termination ==
    /\ (pc = "betting") ~> RoundReturned
    /\ InHand ~> Resolved

\* C30 witness: the River betting round has returned after a bet or raise
\* that was answered, the bettor having been asked again, and the hand is
\* about to be resolved
C30_Witness ==
    /\ pc = "check_showdown"
    /\ round_name = "River"
    /\ Len(community_cards) = 5
    /\ raiser # NoSeat
    /\ raiser \in asked_since_raise
    /\ Cardinality(asked_since_raise) > 1

\* _showdown is performed by this step
ShowdownStepTaken == pc = "check_showdown" /\ resolution' = "showdown"

\* C31: _showdown is performed only when exactly 5 community cards have been
\* dealt and every seat that has not folded holds exactly 2 hole cards, so
\* every hand it passes to the evaluator has exactly 7 cards
C31_ShowdownSevenCards ==
    [][ShowdownStepTaken =>
          /\ Len(community_cards) = 5
          /\ \A p \in NotFolded :
                /\ Len(hole_cards[p]) = 2
                /\ Len(PlayerHand(p)) = 7
      ]_vars

\* C31 witness: a showdown was held in the second hand of a game among three
\* contenders, one of them all-in
C31_Witness ==
    /\ HandOver
    /\ resolution = "showdown"
    /\ hands = 2
    /\ Cardinality(NotFolded) = 3
    /\ \E p \in Seats : all_in[p]
    /\ \A p \in Seats : Len(PlayerHand(p)) = 7

\* play_hand executes its last statement, the showdown or the default win
HandResolved == pc = "check_showdown" /\ pc' = "idle"

\* C32: at every point of a hand at least one seat has not folded, and every
\* hand ends with the pot credited, exactly once, to one or more seats that
\* have not folded: the last statement of play_hand pays the winners, who
\* have not folded, what it pays adds up to the pot, nobody else's stack
\* changes, and no other step of the hand adds chips to a stack
C32_SomebodyWins ==
    [][/\ InHand' => NotFolded' # {}
       /\ HandResolved =>
             /\ winners' # {}
             /\ winners' \subseteq NotFolded
             /\ \A p \in Seats \ winners' : stack'[p] = stack[p]
             /\ \A p \in winners' : stack'[p] >= stack[p]
             /\ Total(stack') - Total(stack) = current_pot
       /\ ~HandResolved => \A p \in Seats : stack'[p] <= stack[p]
      ]_vars

\* C33: a seat that has folded receives no chips from the pot of that hand,
\* neither at showdown nor by default win: folding leaves its stack as it
\* was, from then on until the hand is over its stack does not change, and
\* it is never among the winners
C33_FoldedNeverWins ==
    [][hands' = hands =>
          \A p \in Seats :
             /\ folded'[p] /\ ~folded[p] => stack'[p] = stack[p]
             /\ folded[p] => /\ folded'[p]
                             /\ stack'[p] = stack[p]
                             /\ p \notin winners'
      ]_vars

\* C33 witness: a showdown was held and paid the pot while a seat that had
\* put chips into it and then folded held a hand that beats every winner's
C33_Witness ==
    /\ HandOver
    /\ resolution = "showdown"
    /\ \E p \in Seats :
          /\ folded[p]
          /\ stack[p] < hand_start_stack[p]
          /\ \A q \in winners : CompareHands(PlayerHand(p), PlayerHand(q)) > 0

\* C34: every applied RAISE that does not put the raiser all-in increases
\* the highest current bet of the round by at least min_raise; a raise
\* amount below that bound is never applied as given
C34_MinRaiseEnforced ==
    [][DecisionStep /\ last_action'[CurrentPlayer] = "RAISE" /\ ~all_in'[CurrentPlayer] =>
          CurrentHighestBet(current_bet') - CurrentHighestBet(current_bet) >= min_raise
      ]_vars

WheelRanks == {ACE, FIVE, FOUR, THREE, TWO}
\* the ranks, Six or higher, at which a straight of the cards S can end
StraightTops(S) == {r \in 6 .. ACE : (r - 4) .. r \subseteq RanksIn(S)}
\* the cards of the list cards that are of suit s
SuitCards(cards, s) == {c \in Range(cards) : SuitOf(c) = s}
\* the ranks of the five cards evaluate returned, in order
ReturnedRanks(e) == [i \in 1 .. 5 |-> RankAt(e, i)]
\* the ranks of the straight that ends at rank top, highest first
RunFrom(top) == [i \in 1 .. 5 |-> top - i + 1]

\* C35: when the cards hold the wheel and a higher straight, a Straight
\* returned by evaluate is the highest straight of the cards, not the wheel;
\* when the cards of one suit hold the wheel and a higher straight, evaluate
\* returns the highest straight flush of that suit
C35_HigherStraightBeatsWheel ==
    evaluated # <<>> =>
        /\ /\ evaluated[1][1] = STRAIGHT
           /\ WheelRanks \subseteq RanksIn(Range(hand1))
           /\ StraightTops(Range(hand1)) # {}
           => ReturnedRanks(evaluated[1]) = RunFrom(Max(StraightTops(Range(hand1))))
        /\ \A s \in 0 .. 3 :
              /\ WheelRanks \subseteq RanksIn(SuitCards(hand1, s))
              /\ StraightTops(SuitCards(hand1, s)) # {}
              => /\ evaluated[1][1] = STRAIGHT_FLUSH
                 /\ ReturnedRanks(evaluated[1]) =
                        RunFrom(Max(StraightTops(SuitCards(hand1, s))))

\* the Preflop betting round of a hand starts
PreflopStarts == pc = "round" /\ round_name = "Preflop"

\* C36: when the Preflop betting round of a hand starts, every seat holds
\* exactly 2 hole cards and the deck holds exactly 52 - 2n cards, n the
\* number of seats, so that the 8 cards of the streets and burns are left
\* in it whenever 2n + 8 <= 52
C36_HoleCardsOnce ==
    PreflopStarts =>
        /\ \A p \in Seats : Len(hole_cards[p]) = 2
        /\ Len(deck) = 52 - 2 * num_players
        /\ 2 * num_players + 8 <= 52 => Len(deck) >= 8

\* the cards the seats hold
HoleCardSet == UNION {Range(hole_cards[p]) : p \in Seats}
\* the number of cards that lie in the deck, in the seats' hole cards and on
\* the board
CardsInPlay ==
    Len(deck) + SumOver([p \in Seats |-> Len(hole_cards[p])], Seats)
        + Len(community_cards)

\* C37: the cards in the deck, the hole cards of all seats and the community
\* cards are pairwise disjoint and hold no card twice: they are as many
\* places as they are different cards
C37_NoCardTwice ==
    /\ CardsInPlay = Cardinality(Range(deck) \cup HoleCardSet \cup Range(community_cards))
    /\ Range(deck) \cap HoleCardSet = {}
    /\ Range(deck) \cap Range(community_cards) = {}
    /\ HoleCardSet \cap Range(community_cards) = {}

\* C37 witness: in the second hand of a game the river has been dealt; the
\* hole cards were dealt twice and three cards were burnt
C37_Witness ==
    /\ hands = 2
    /\ pc = "check_showdown"
    /\ Len(community_cards) = 5
    /\ \A p \in Seats : Len(hole_cards[p]) = 2
    /\ Len(deck) = 52 - 4 * num_players - 8

\* evaluate returned exactly 5 cards, all different, all taken from cards
FiveOfTheInput(e, cards) ==
    /\ Len(e[2]) = 5
    /\ Cardinality(Range(e[2])) = 5
    /\ Range(e[2]) \subseteq Range(cards)

\* C38: for every input of 5 to 7 distinct cards, evaluate returns exactly 5
\* cards, all distinct and all taken from the input, whatever category it
\* finds and in whatever order the cards are handed to it
C38_FiveCardsReturned ==
    evaluated # <<>> =>
        /\ FiveOfTheInput(evaluated[1], hand1)
        /\ FiveOfTheInput(evaluated[2], hand2)

\* C38 witness: seven cards with four Nines and three Aces were evaluated as
\* Four of a Kind, the kicker being an Ace
C38_Witness ==
    /\ evaluated # <<>>
    /\ Len(hand1) = 7
    /\ RankCount(hand1, 9) = 4
    /\ RankCount(hand1, ACE) = 3
    /\ evaluated[1][1] = FOUR_OF_A_KIND
    /\ RankOf(evaluated[1][2][5]) = ACE

\* what compare_hands returned for the pairs of the three hands a = hand1,
\* b = hand2, c = hand3
ResultAB == comparisons[1]
ResultBA == comparisons[2]
ResultAA == comparisons[3]
ResultBC == comparisons[4]
ResultAC == comparisons[5]

\* C39: compare_hands is a total preorder on the lists of 5 to 7 cards: it
\* returns 1, 0 or -1, compare_hands(a, b) = -compare_hands(b, a),
\* compare_hands(a, a) = 0, and a >= b and b >= c imply a >= c
C39_TotalPreorder ==
    comparisons # <<>> =>
        /\ \A i \in 1 .. 5 : comparisons[i] \in {0 - 1, 0, 1}
        /\ ResultAB = 0 - ResultBA
        /\ ResultAA = 0
        /\ ResultAB >= 0 /\ ResultBC >= 0 => ResultAC >= 0

\* C39 witness: two different lists of cards compared equal, the second of
\* them beat a third of another category, and so did the first
C39_Witness ==
    /\ comparisons # <<>>
    /\ hand1 # hand2
    /\ ResultAB = 0
    /\ ResultBC = 1
    /\ ResultAC = 1
    /\ evaluated[2][1] # evaluated[3][1]

\* C40: applying a CHECK or a FOLD leaves every stack, every current_bet and
\* the pot unchanged, and the all-in flags, the cards and the other seats'
\* fields with them; a FOLD changes only the acting seat's folded flag and
\* last action, a CHECK only the acting seat's last action and the set of
\* players who acted since the last raise, which it joins
C40_CheckFoldFrame ==
    [][DecisionStep /\ last_action'[CurrentPlayer] \in {"CHECK", "FOLD"} =>
          LET p == CurrentPlayer
          IN /\ UNCHANGED <<stack, current_bet, current_pot, all_in, hole_cards,
                            community_cards, deck, betting_round, dealer_position,
                            min_raise>>
             /\ \A q \in Seats \ {p} :
                   last_action'[q] = last_action[q] /\ folded'[q] = folded[q]
             /\ last_action'[p] = "FOLD" =>
                   /\ folded'[p]
                   /\ players_acted_since_raise' = players_acted_since_raise
             /\ last_action'[p] = "CHECK" =>
                   /\ folded'[p] = folded[p]
                   /\ players_acted_since_raise' = players_acted_since_raise \cup {p}
      ]_vars

\* C40 witness: a seat that had chips in the pot and chips left has folded
\* after another seat checked, and the round goes on
C40_Witness ==
    /\ pc = "betting"
    /\ actor # NoSeat
    /\ last_action[actor] = "FOLD"
    /\ folded[actor]
    /\ current_bet[actor] > 0
    /\ stack[actor] > 0
    /\ \E q \in Seats \ {actor} :
          last_action[q] = "CHECK" /\ q \in players_acted_since_raise

====
